---- MODULE Spec2Model ----
(***************************************************************************)
(* Model of monero-sys/src/bridge.h:                                       *)
(*   - Monero::createMultiSweepTransaction (ratio validation, fee          *)
(*     estimate, split of the sweepable balance, transaction construction) *)
(*   - monero_rust_log (install_log_callback, uninstall_log_callback,      *)
(*     RustDispatch::handle)                                               *)
(*                                                                         *)
(* uint64_t is modelled as an unsigned integer of Width bits (arithmetic   *)
(* modulo 2^Width).  A double is modelled as an exact multiple of 1e-7:    *)
(* the integer k stands for k * 1e-7, so that 1.0 is RatioScale and the    *)
(* tolerance 1e-6 is epsilon = 10 units.  The ratios offered to the model  *)
(* never sum to exactly 1.0 +- 1e-6, where the rounding of real doubles    *)
(* would decide the comparison.                                            *)
(***************************************************************************)
EXTENDS Integers, Sequences, FiniteSets, TLC

\* ---------------------------------------------------------------- bounds
Width == 24
MaxDest == 3
MaxPending == 2
MaxActivations == 2
MaxForwarded == 2

\* ------------------------------------------------------- numeric domain
Modulus == 2 ^ Width

\* 1.0 and 1e-6 in units of 1e-7
RatioScale == 10000000
epsilon == 10

\* the doubles a caller may pass as sweep ratios:
\* -1.0, 0.0, 0.0000004, 0.2, 0.3, 0.5, 0.5000004, 1.0, 2.0
Ratios == {0 - 10000000, 0, 4, 2000000, 3000000, 5000000, 5000004, 10000000,
           20000000}

\* wallet.unlockedBalance() and wallet.estimateTransactionFee() results
Balances == {0, 10, 1000000, 10000000}
Fees == {0, 1, 1000}

AddressPool == <<"A", "B", "C", "D", "E">>
DestLists == {SubSeq(AddressPool, 1, n) : n \in 0..MaxDest}
RatioLists == UNION {[1..m -> Ratios] : m \in 0..MaxDest}

EmptyTx == [dests |-> <<>>, amounts |-> <<>>]

\* ------------------------------------------------------------ variables
VARIABLES
    pc,                \* "idle" | "returned": position of the sweep caller
    dest_addresses,    \* argument
    sweep_ratios,      \* argument
    fee,               \* local (0 until estimated)
    balance,           \* local (0 until read)
    sweepable_balance, \* local
    amounts,           \* local vector
    sum,               \* local, after the first N-1 amounts
    ret,               \* which return statement was taken
    txCalls,           \* calls of wallet.createTransactionMultDest in this call
    tx,                \* arguments of that call
    pendingTxs,        \* wallet state: transactions constructed so far
    installed,         \* monero_rust_log::installed
    span_name,         \* monero_rust_log::span_name
    registered,        \* easylogging++ holds the "rust-forward" callback
    registerCalls,     \* calls of installLogDispatchCallback
    reconfigureCalls,  \* times the loggers were reconfigured
    sinksDisabled,     \* easylogging++ writes neither to stdout nor to files
    perfEnabled,       \* the "PERF" logger is enabled
    pendingOutput,     \* easylogging++ holds unflushed output
    forwarded,         \* messages handed to forward_cpp_log
    lastOp             \* last logging operation and its argument

sweepVars == <<pc, dest_addresses, sweep_ratios, fee, balance, sweepable_balance,
               amounts, sum, ret, txCalls, tx, pendingTxs>>
logVars == <<installed, span_name, registered, registerCalls, reconfigureCalls,
             sinksDisabled, perfEnabled, pendingOutput, forwarded, lastOp>>
vars == <<sweepVars, logVars>>

\* ------------------------------------------------------ pure arithmetic
RECURSIVE SumSeq(_)
SumSeq(s) == IF Len(s) = 0 THEN 0 ELSE s[1] + SumSeq(Tail(s))

RECURSIVE Zeros(_)
Zeros(n) == IF n = 0 THEN <<>> ELSE Append(Zeros(n - 1), 0)

\* uint64_t arithmetic
Wrap(x) == x % Modulus

\* sum_ratios: the loop of lines 161-165
RECURSIVE SumRatios(_)
SumRatios(rs) == IF Len(rs) = 0 THEN 0 ELSE rs[1] + SumRatios(Tail(rs))

Abs(x) == IF x < 0 THEN 0 - x ELSE x

\* std::abs(sum_ratios - 1.0) > epsilon
SumOutOfTolerance(s) == Abs(s - RatioScale) > epsilon

\* floor(s * m / 1e7) for s >= 0, m >= 0: the product by long
\* multiplication in base 10000, so that every piece stays small
FloorMulNat(s, m) ==
    LET sh == s \div 10000
        sl == s % 10000
        mh == m \div 10000
        ml == m % 10000
    IN 10 * sh * mh
       + ((sh * ml + sl * mh + ((sl * ml) \div 10000)) \div 1000)

\* whether s * m is a multiple of 1e7
ExactMul(s, m) ==
    LET sh == s \div 10000
        sl == s % 10000
        mh == m \div 10000
        ml == m % 10000
    IN /\ (sl * ml) % 10000 = 0
       /\ (sh * ml + sl * mh + ((sl * ml) \div 10000)) % 1000 = 0

\* std::floor(sweepable_balance * ratio): an integer, possibly negative
FloorProduct(s, r) ==
    IF r >= 0 THEN FloorMulNat(s, r)
    ELSE 0 - (FloorMulNat(s, 0 - r) + (IF ExactMul(s, 0 - r) THEN 0 ELSE 1))

\* static_cast<uint64_t>(double): the value itself when 0 <= d < 2^Width.
\* Otherwise the behaviour is undefined; the outcomes are those of the two
\* common code generators: x86-64 (signed conversion, so a negative value
\* wraps and anything past the signed range gives the top bit or 0) and
\* AArch64 (saturation to 0 or to the largest value)
CastToUint64(d) ==
    IF d >= 0 /\ d < Modulus THEN {d}
    ELSE IF d >= Modulus THEN {0, Modulus - 1}
    ELSE IF d >= 0 - (Modulus \div 2) THEN {0, Wrap(d)}
    ELSE {0, Modulus \div 2}

\* ------------------------------------------- createMultiSweepTransaction
\* the sum check without std::abs
ValidateSignedTolerance(dests, rs) ==
    IF Len(dests) = 0 THEN "nullptr_150"
    ELSE IF Len(rs) # Len(dests) THEN "nullptr_157"
    ELSE IF SumRatios(rs) - RatioScale > epsilon THEN "nullptr_171"
    ELSE "valid"

\* lines 144-172: the three checks on the arguments, in order
Validate(dests, rs) ==
    IF Len(dests) = 0 THEN "nullptr_150"
    ELSE IF Len(rs) # Len(dests) THEN "nullptr_157"
    ELSE IF SumOutOfTolerance(SumRatios(rs)) THEN "nullptr_171"
    ELSE "valid"

\* the zero check left out
NeverZeroAmount(a) == FALSE

\* line 201
IsZeroAmount(a) == a = 0

\* lines 195-209: the loop over the first N-1 destinations, from index i on;
\* am is the amounts vector so far, sm the running sum
RECURSIVE SplitLoop(_, _, _, _, _)
SplitLoop(s, rs, i, am, sm) ==
    IF i > Len(am) - 1
    THEN {[zero |-> FALSE, amounts |-> am, sum |-> sm]}
    ELSE UNION {
           IF IsZeroAmount(a)
           THEN {[zero |-> TRUE, amounts |-> am, sum |-> sm]}
           ELSE SplitLoop(s, rs, i + 1, [am EXCEPT ![i] = a], Wrap(sm + a))
           : a \in CastToUint64(FloorProduct(s, rs[i])) }

\* line 214
Residual(s, sm) == Wrap(s - sm)

\* lines 217-224: the re-check of the sum
SumMismatch(am, s) == Wrap(SumSeq(am)) # s

\* a return of nullptr: wallet.createTransactionMultDest is not called
Rejected(site, f, b, s, am, sm) ==
    [ret |-> site, fee |-> f, balance |-> b, sweepable_balance |-> s,
     amounts |-> am, sum |-> sm, txCalls |-> 0, tx |-> EmptyTx]

\* lines 229-234: the call of wallet.createTransactionMultDest
Constructed(dests, f, b, s, am, sm) ==
    [ret |-> "tx", fee |-> f, balance |-> b, sweepable_balance |-> s,
     amounts |-> am, sum |-> sm, txCalls |-> 1,
     tx |-> [dests |-> dests, amounts |-> am]]

\* line 189
Sweepable(b, f) == Wrap(b - f)

\* lines 186-234, for arguments that passed the checks; f is the fee estimate
\* and b the unlocked balance the wallet reports
Split(dests, rs, f, b) ==
    LET n == Len(dests)
        s == Sweepable(b, f)
    IN { IF l.zero
         THEN Rejected("nullptr_204", f, b, s, l.amounts, l.sum)
         ELSE LET am == [l.amounts EXCEPT ![n] = Residual(s, l.sum)]
              IN IF SumMismatch(am, s)
                 THEN Rejected("nullptr_223", f, b, s, am, l.sum)
                 ELSE Constructed(dests, f, b, s, am, l.sum)
         : l \in SplitLoop(s, rs, 1, Zeros(n), 0) }

\* the whole function: the set of its possible outcomes
SweepOutcomes(dests, rs, f, b) ==
    LET v == Validate(dests, rs)
    IN IF v # "valid"
       THEN {Rejected(v, 0, 0, 0, <<>>, 0)}
       ELSE Split(dests, rs, f, b)

createMultiSweepTransaction ==
    /\ pc = "idle"
    /\ pendingTxs < MaxPending
    /\ \E b \in Balances, f \in Fees, dests \in DestLists, rs \in RatioLists :
         \E o \in SweepOutcomes(dests, rs, f, b) :
            /\ dest_addresses' = dests
            /\ sweep_ratios' = rs
            /\ fee' = o.fee
            /\ balance' = o.balance
            /\ sweepable_balance' = o.sweepable_balance
            /\ amounts' = o.amounts
            /\ sum' = o.sum
            /\ ret' = o.ret
            /\ txCalls' = o.txCalls
            /\ tx' = o.tx
            /\ pendingTxs' = pendingTxs + o.txCalls
    /\ pc' = "returned"
    /\ UNCHANGED logVars

\* the function has returned; its arguments and locals are gone
Return ==
    /\ pc = "returned"
    /\ pc' = "idle"
    /\ dest_addresses' = <<>>
    /\ sweep_ratios' = <<>>
    /\ fee' = 0
    /\ balance' = 0
    /\ sweepable_balance' = 0
    /\ amounts' = <<>>
    /\ sum' = 0
    /\ ret' = "none"
    /\ txCalls' = 0
    /\ tx' = EmptyTx
    /\ UNCHANGED <<pendingTxs, logVars>>

\* ------------------------------------------------------ monero_rust_log
Names == {"monero_a", "monero_b"}
Loggers == {"default", "PERF"}
\* el::Level
Levels == {"Global", "Trace", "Debug", "Fatal", "Error", "Warning", "Verbose",
           "Info", "Unknown"}

\* debug kept as its own level
MapLevelDebugKept(l) ==
    CASE l = "Trace" -> 0
      [] l = "Debug" -> 1
      [] l = "Info" -> 2
      [] l = "Warning" -> 3
      [] l = "Error" -> 4
      [] l = "Fatal" -> 4
      [] OTHER -> 1

\* lines 316-338
MapLevel(l) ==
    CASE l = "Trace" -> 0
      [] l = "Debug" -> 0
      [] l = "Info" -> 2
      [] l = "Warning" -> 3
      [] l = "Error" -> 4
      [] l = "Fatal" -> 4
      [] OTHER -> 1

\* lines 306-348, RustDispatch::handle: the messages forwarded after handling one of level l
handle(l) ==
    IF ~installed THEN forwarded
    ELSE Append(forwarded, [span |-> span_name, level |-> MapLevel(l), from |-> l])

\* install without the check of the installed flag
install_unguarded(name) ==
    /\ lastOp' = [op |-> "install", arg |-> name]
    /\ registerCalls < MaxActivations
    /\ installed' = TRUE
    /\ span_name' = name
    /\ registered' = TRUE
    /\ registerCalls' = registerCalls + 1
    /\ reconfigureCalls' = reconfigureCalls + 1
    /\ sinksDisabled' = TRUE
    /\ perfEnabled' = FALSE
    /\ UNCHANGED <<pendingOutput, forwarded, sweepVars>>

\* lines 355-385
install_log_callback(name) ==
    /\ lastOp' = [op |-> "install", arg |-> name]
    /\ IF installed
       THEN UNCHANGED <<installed, span_name, registered, registerCalls,
                        reconfigureCalls, sinksDisabled, perfEnabled>>
       ELSE /\ registerCalls < MaxActivations
            /\ installed' = TRUE
            /\ span_name' = name
            /\ registered' = TRUE
            /\ registerCalls' = registerCalls + 1
            /\ reconfigureCalls' = reconfigureCalls + 1
            /\ sinksDisabled' = TRUE
            /\ perfEnabled' = FALSE
    /\ UNCHANGED <<pendingOutput, forwarded, sweepVars>>

\* uninstall that leaves the installed flag set
uninstall_keeps_flag ==
    /\ lastOp' = [op |-> "uninstall", arg |-> ""]
    /\ registered' = FALSE
    /\ pendingOutput' = FALSE
    /\ UNCHANGED <<installed, span_name, registerCalls, reconfigureCalls,
                   sinksDisabled, perfEnabled, forwarded, sweepVars>>

\* lines 390-396
uninstall_log_callback ==
    /\ lastOp' = [op |-> "uninstall", arg |-> ""]
    /\ registered' = FALSE
    /\ pendingOutput' = FALSE
    /\ installed' = FALSE
    /\ UNCHANGED <<span_name, registerCalls, reconfigureCalls, sinksDisabled,
                   perfEnabled, forwarded, sweepVars>>

\* easylogging++ dispatches one message of a logger: it writes to its own
\* sinks unless they are disabled, and calls the registered callback
Dispatch(logger, l) ==
    /\ Len(forwarded) < MaxForwarded
    /\ logger = "PERF" => perfEnabled
    /\ lastOp' = [op |-> "log", arg |-> l]
    /\ pendingOutput' = (pendingOutput \/ ~sinksDisabled)
    /\ forwarded' = IF registered THEN handle(l) ELSE forwarded
    /\ UNCHANGED <<installed, span_name, registered, registerCalls,
                   reconfigureCalls, sinksDisabled, perfEnabled, sweepVars>>

\* ------------------------------------------------------- specifications
Init ==
    /\ pc = "idle"
    /\ dest_addresses = <<>>
    /\ sweep_ratios = <<>>
    /\ fee = 0
    /\ balance = 0
    /\ sweepable_balance = 0
    /\ amounts = <<>>
    /\ sum = 0
    /\ ret = "none"
    /\ txCalls = 0
    /\ tx = EmptyTx
    /\ pendingTxs = 0
    /\ installed = FALSE
    /\ span_name = ""
    /\ registered = FALSE
    /\ registerCalls = 0
    /\ reconfigureCalls = 0
    /\ sinksDisabled = FALSE
    /\ perfEnabled = TRUE
    /\ pendingOutput = FALSE
    /\ forwarded = <<>>
    /\ lastOp = [op |-> "none", arg |-> ""]

SweepNext ==
    \/ createMultiSweepTransaction
    \/ Return

LogNext ==
    \/ \E name \in Names : install_log_callback(name)
    \/ uninstall_log_callback
    \/ \E logger \in Loggers, l \in Levels : Dispatch(logger, l)

Next == SweepNext \/ LogNext

SweepSpec == Init /\ [][SweepNext]_vars
LogSpec == Init /\ [][LogNext]_vars
Spec == Init /\ [][Next]_vars

\* ================================================================ claims
NullSites == {"nullptr_150", "nullptr_157", "nullptr_171", "nullptr_204",
              "nullptr_223"}

\* the arguments of the finished call pass the three checks of the spec
ArgumentsValid ==
    /\ Len(dest_addresses) # 0
    /\ Len(sweep_ratios) = Len(dest_addresses)
    /\ ~SumOutOfTolerance(SumRatios(sweep_ratios))

\* C1: whenever the call reaches wallet.createTransactionMultDest, the
\* amounts handed over sum, as integers, to exactly unlockedBalance - fee.
C1_ExactSum ==
    txCalls = 1 => SumSeq(tx.amounts) = balance - fee

\* C2: in every plan handed to transaction construction every destination's
\* amount is > 0, the last destination's residual included.
C2_AllAmountsPositive ==
    txCalls = 1 => \A i \in 1..Len(tx.amounts) : tx.amounts[i] > 0

\* C3: when the unlocked balance is smaller than the estimated fee the call
\* is rejected; nothing derived from the wrapped difference is computed or
\* handed to transaction construction.
C3_InsufficientBalanceRejected ==
    (pc = "returned" /\ ArgumentsValid /\ balance < fee)
        => (txCalls = 0 /\ ret \in NullSites /\ sweepable_balance = 0)

\* C4: the arguments are checked in a fixed order, the first failure
\* deciding: no destinations (whatever the ratios), then a ratio count that
\* differs from the destination count, then a ratio sum further than 1e-6
\* from 1.0; a sum within 1e-6 of 1.0 passes all three checks.
C4_ValidationOrder ==
    pc = "returned" =>
        LET n == Len(dest_addresses)
            m == Len(sweep_ratios)
            sr == SumRatios(sweep_ratios)
        IN /\ n = 0 => ret = "nullptr_150"
           /\ (n # 0 /\ m # n) => ret = "nullptr_157"
           /\ (n # 0 /\ m = n /\ Abs(sr - RatioScale) > epsilon)
                  => ret = "nullptr_171"
           /\ (n # 0 /\ m = n /\ Abs(sr - RatioScale) <= epsilon)
                  => ret \notin {"nullptr_150", "nullptr_157", "nullptr_171"}

\* two destinations with ratios 0.2 + 0.3 = 0.5 are rejected by the sum check
C4_Witness ==
    /\ pc = "returned"
    /\ dest_addresses = <<"A", "B">>
    /\ sweep_ratios = <<2000000, 3000000>>
    /\ ret = "nullptr_171"

\* C5: one call invokes wallet.createTransactionMultDest at most once, and
\* only when the arguments passed the checks, no amount of the first N-1 was
\* zero and the sum re-check passed; a call that returns nullptr has not
\* invoked it, holds no transaction and leaves the wallet as it was.
C5_ConstructionOnlyAsLastStep ==
    [][(pc = "idle" /\ pc' = "returned") =>
         /\ txCalls' \in {0, 1}
         /\ (ret' = "tx") <=> (txCalls' = 1)
         /\ txCalls' = 1 =>
              /\ ArgumentsValid'
              /\ \A i \in 1..(Len(tx'.amounts) - 1) : tx'.amounts[i] # 0
              /\ Wrap(SumSeq(tx'.amounts)) = sweepable_balance'
              /\ pendingTxs' = pendingTxs + 1
         /\ ret' # "tx" =>
              /\ ret' \in NullSites
              /\ tx' = EmptyTx
              /\ pendingTxs' = pendingTxs]_vars

\* a call rejected for a zero amount, after an earlier call built a transaction
C5_Witness ==
    /\ pc = "returned"
    /\ ret = "nullptr_204"
    /\ txCalls = 0
    /\ tx = EmptyTx
    /\ pendingTxs = 1

\* C6: each of the first N-1 destinations gets floor(sweepable * ratio[i]),
\* the last destination in input order gets sweepable minus their sum, and
\* amounts stay paired with destinations in input order; balance 1000000,
\* fee 1000, ratios [0.5, 0.3, 0.2] give 499500, 299700, 199800.
C6_FloorSplitInputOrder ==
    txCalls = 1 =>
        LET n == Len(dest_addresses)
        IN /\ tx.dests = dest_addresses
           /\ Len(tx.amounts) = n
           /\ \A i \in 1..(n - 1) :
                 tx.amounts[i] = FloorProduct(sweepable_balance, sweep_ratios[i])
           /\ tx.amounts[n] = sweepable_balance - SumSeq(SubSeq(tx.amounts, 1, n - 1))
           /\ (/\ balance = 1000000
               /\ fee = 1000
               /\ sweep_ratios = <<5000000, 3000000, 2000000>>)
                  => tx.amounts = <<499500, 299700, 199800>>

\* C10: at the residual assignment the sum of the first N-1 amounts does not
\* exceed the sweepable balance, so no amount handed to transaction
\* construction is greater than the sweepable balance.
C10_ResidualDoesNotWrap ==
    txCalls = 1 =>
        /\ SumSeq(SubSeq(tx.amounts, 1, Len(tx.amounts) - 1)) <= sweepable_balance
        /\ \A i \in 1..Len(tx.amounts) : tx.amounts[i] <= sweepable_balance

LogState == <<installed, span_name, registered, registerCalls, reconfigureCalls,
              sinksDisabled, perfEnabled, pendingOutput, forwarded>>

\* C7: a call of install_log_callback made while the bridge is installed
\* registers nothing, reconfigures nothing and keeps the channel name.
C7_InstallIdempotent ==
    [][(installed /\ lastOp'.op = "install") => LogState' = LogState]_vars

\* install was called with another name while installed; the name stayed
C7_Witness ==
    /\ lastOp.op = "install"
    /\ installed
    /\ span_name # lastOp.arg
    /\ registerCalls = 1
    /\ reconfigureCalls = 1

\* C8 as stated: forwarded levels are trace=0, debug=1, info=2, warning=3,
\* error=4, fatal=4.
C8_ClaimedScale ==
    \A i \in 1..Len(forwarded) :
        LET e == forwarded[i]
        IN /\ e.level \in 0..4
           /\ e.from = "Trace" => e.level = 0
           /\ e.from = "Debug" => e.level = 1
           /\ e.from = "Info" => e.level = 2
           /\ e.from = "Warning" => e.level = 3
           /\ e.from = "Error" => e.level = 4
           /\ e.from = "Fatal" => e.level = 4

\* C8 amended: forwarded levels are trace=0, debug=0, info=2, warning=3,
\* error=4, fatal=4, and 1 for every other level of the logging subsystem.
C8_ForwardedScale ==
    \A i \in 1..Len(forwarded) :
        LET e == forwarded[i]
        IN /\ e.from \in {"Trace", "Debug"} => e.level = 0
           /\ e.from = "Info" => e.level = 2
           /\ e.from = "Warning" => e.level = 3
           /\ e.from \in {"Error", "Fatal"} => e.level = 4
           /\ e.from \in {"Global", "Verbose", "Unknown"} => e.level = 1

\* a debug message and a verbose message were forwarded
C8_Witness ==
    /\ installed
    /\ Len(forwarded) = 2
    /\ forwarded[1].from = "Debug" /\ forwarded[1].level = 0
    /\ forwarded[2].from = "Verbose" /\ forwarded[2].level = 1

\* C9: messages reach the sink only while the bridge is installed, under
\* the installed channel name; after uninstall the bridge is inactive until
\* the next install, which activates it under the name it is given.
C9_UninstallReversesInstall ==
    /\ [](lastOp.op = "uninstall" => (~installed /\ ~registered))
    /\ [](lastOp.op = "install" => (installed /\ registered))
    /\ [][/\ Len(forwarded') > Len(forwarded) =>
               /\ installed /\ installed'
               /\ forwarded' = Append(forwarded,
                                      [forwarded'[Len(forwarded')] EXCEPT
                                         !.span = span_name])
          /\ ~installed => forwarded' = forwarded
          /\ (~installed /\ lastOp'.op = "install") =>
               (installed' /\ registered' /\ span_name' = lastOp'.arg)]_vars

\* a message forwarded under the first name, then, after uninstall and a
\* second install, a message forwarded under the other name
C9_Witness ==
    /\ Len(forwarded) = 2
    /\ forwarded[1].span = "monero_a"
    /\ forwarded[2].span = "monero_b"
    /\ registerCalls = 2
    /\ installed

====
